---- MODULE Spec2Model ----
(***************************************************************************)
(* The validation state and reconciliation engine of                       *)
(* prosemirror-typerighter: the plugin reducer (validationPluginReducer    *)
(* and its action handlers), the range operations it calls, the position   *)
(* mapping of in-flight requests, and the throttle timer that turns        *)
(* dirtied ranges into validation requests.                                *)
(*                                                                         *)
(* A document is a flat run of positions 0..docSize.  A transaction is a   *)
(* record [mapping, time, docSize]: its step maps, its timestamp and the   *)
(* size of the document it produces.  The reducer is one operator, applied *)
(* once per transaction; every action of the model is one dispatch of a    *)
(* transaction (or one firing of the timer, which dispatches one).         *)
(***************************************************************************)
EXTENDS Integers, Sequences, FiniteSets, TLC

\* ---------------------------------------------------------------- bounds
\* The largest document (positions 0..MaxDoc).
MaxDoc == 3
\* The size of the document when the plugin is created.
InitDoc == 2
\* The most characters one edit removes, and the most it inserts.
MaxReplace == 1
\* The most step maps an in-flight request accumulates (edits while it is out).
MaxMapLen == 2
\* The most requests in flight at once.
MaxInFlight == 2
\* The most ranges one RangesDirtied action carries.
MaxDirtyArgs == 1
\* The most outputs one response carries.
MaxOutputs == 1
\* The latest timestamp a dispatch of requests carries (the clock starts at 0
\* and every dispatch is later than the one before).
MaxTime == 2
\* The most edits of the document in one run.
MaxEdits == 2
\* The most timers scheduled at once.
MaxTimers == 2
\* The most answered requests whose response may be delivered once more.
MaxAnswered == 1
\* The most edits of the document in one run with responses delivered twice.
MaxRedeliveryEdits == 1
\* The most edits of the document in one run with selection, hover and debug.
MaxUiEdits == 1
\* The most edits of the document in one run with notifications recorded.
MaxNotifyEdits == 1
\* The most edits of the document in one run where dispatch is awaited.
MaxDispatchEdits == 1
\* The most edits of the document after the two that dirtied two ranges.
MaxLaterEdits == 1
\* The most ranges in a list handed to mergeRanges on its own.
MaxMerge == 3
\* The most edits where the pointer moves over the matches.
MaxHoverEdits == 1
\* The most transactions where the transaction history is recorded.
MaxTransactions == 28

\* ------------------------------------------------------------ vocabulary
NotFound == 0
Undefined == "undefined"
OutputIds == {"a", "b"}
Messages == {"network error", "timeout"}
ExpandFns == {"identity", "parentBlock"}
Orchestrators == {"plugin", "service"}

Max(a, b) == IF a >= b THEN a ELSE b
Min(a, b) == IF a <= b THEN a ELSE b

Range(f, t) == [from |-> f, to |-> t]
RangesWithin(lo, hi) == {r \in [from : lo..hi, to : lo..hi] : r.from <= r.to}

\* ------------------------------------------------------- position mapper
\* One step map [start, oldSize, newSize]: oldSize characters at start are
\* replaced by newSize characters.  StepMap.map(pos, assoc).
StepMapMap(sm, pos, assoc) ==
  LET end == sm.start + sm.oldSize
      side == IF sm.oldSize = 0 THEN assoc
              ELSE IF pos = sm.start THEN -1
              ELSE IF pos = end THEN 1
              ELSE assoc
  IN IF pos < sm.start THEN pos
     ELSE IF pos <= end THEN sm.start + (IF side < 0 THEN 0 ELSE sm.newSize)
     ELSE pos + sm.newSize - sm.oldSize

\* Mapping.map(pos, assoc): through every step map, in order.
RECURSIVE MappingMap(_, _, _)
MappingMap(mapping, pos, assoc) ==
  IF mapping = <<>> THEN pos
  ELSE MappingMap(Tail(mapping), StepMapMap(Head(mapping), pos, assoc), assoc)

\* Mapping.appendMapping: a new Mapping holding both, in order.
appendMapping(mapping, other) == mapping \o other

\* --------------------------------------------------- range set operations
\* The overlap test of findOverlappingRangeIndex: strict intersection.
Overlaps(range, other) == other.from < range.to /\ other.to > range.from

\* First index of `ranges` that overlaps `range`, or NotFound.
findOverlappingRangeIndex(range, ranges) ==
  IF \E i \in 1..Len(ranges) : Overlaps(range, ranges[i])
  THEN CHOOSE i \in 1..Len(ranges) :
         /\ Overlaps(range, ranges[i])
         /\ \A j \in 1..(i - 1) : ~Overlaps(range, ranges[j])
  ELSE NotFound

keepsRange(range, blockers) == findOverlappingRangeIndex(range, blockers) = NotFound

\* The elements of firstRanges that overlap no element of secondRanges.
removeOverlappingRanges(firstRanges, secondRanges) ==
  SelectSeq(firstRanges, LAMBDA r : keepsRange(r, secondRanges))

RangeBefore(a, b) == a.from < b.from \/ (a.from = b.from /\ a.to <= b.to)

RECURSIVE InsertSorted(_, _)
InsertSorted(r, s) ==
  IF s = <<>> THEN <<r>>
  ELSE IF RangeBefore(r, Head(s)) THEN <<r>> \o s
  ELSE <<Head(s)>> \o InsertSorted(r, Tail(s))

RECURSIVE SortRanges(_)
SortRanges(s) == IF s = <<>> THEN <<>> ELSE InsertSorted(Head(s), SortRanges(Tail(s)))

\* Collapse joining overlapping ranges only, not touching ones.
RECURSIVE Collapse_KeepsTouching(_, _)
Collapse_KeepsTouching(acc, s) ==
  IF s = <<>> THEN acc
  ELSE LET r == Head(s)
           n == Len(acc)
       IN IF n > 0 /\ r.from < acc[n].to
          THEN Collapse_KeepsTouching([acc EXCEPT ![n].to = Max(@, r.to)], Tail(s))
          ELSE Collapse_KeepsTouching(Append(acc, r), Tail(s))

RECURSIVE Collapse(_, _)
Collapse(acc, s) ==
  IF s = <<>> THEN acc
  ELSE LET r == Head(s)
           n == Len(acc)
       IN IF n > 0 /\ r.from <= acc[n].to
          THEN Collapse([acc EXCEPT ![n].to = Max(@, r.to)], Tail(s))
          ELSE Collapse(Append(acc, r), Tail(s))

\* Sort by from, then to; collapse overlapping or touching ranges.
mergeRanges(ranges) == Collapse(<<>>, SortRanges(ranges))

\* A range through a mapping: the ends are biased outwards, so that the
\* range still covers text inserted at its edges.
mapRange(range, mapping) ==
  [range EXCEPT !.from = MappingMap(mapping, range.from, -1),
                !.to = MappingMap(mapping, range.to, 1)]

mapRanges(ranges, mapping) == [i \in 1..Len(ranges) |-> mapRange(ranges[i], mapping)]

mapAndMergeRanges(ranges, mapping) == mergeRanges(mapRanges(ranges, mapping))

validationInputToRange(validationInput) == Range(validationInput.from, validationInput.to)

\* The outputs of a response, mapped to the current document and merged into
\* the current validations: an entry with the identifier of an incoming
\* output is replaced by it.
getCurrentValidationsFromValidationResponse(validationInput, incoming, current, mapping) ==
  LET mapped == mapRanges(incoming, mapping)
      ids == {mapped[i].id : i \in 1..Len(mapped)}
  IN SelectSeq(current, LAMBDA v : v.id \notin ids) \o mapped

\* The ranges a dispatch sends for the dirtied ranges: the ranges themselves,
\* or each one's parent block (the document here is a single block).
expandRanges(fn, ranges, size) ==
  IF fn = "identity" THEN ranges
  ELSE IF ranges = <<>> THEN <<>> ELSE <<Range(0, size)>>

\* The inputs of a whole-document request.
createValidationInputsForDocument(size) == <<Range(0, size)>>

\* ------------------------------------------------------------- decorations
\* The decoration set holds the inline decorations of the matches, in the
\* order they were added. The widgets (height markers) and the decorations of
\* debug mode are left out: they are of other types, and every widget lies on
\* the start of its match.
DECORATION_MATCH == "DECORATION_MATCH"

\* createDecorationsForMatch: the inline decoration of a match.
createDecorationsForMatch(match, isSelected) ==
  <<[type |-> DECORATION_MATCH, id |-> match.id, from |-> match.from, to |-> match.to,
     isSelected |-> isSelected]>>

createDecorationsForMatches(matches) ==
  [i \in 1..Len(matches) |-> createDecorationsForMatch(matches[i], FALSE)[1]]

\* DecorationSet.add.
addDecorations(decorationSet, toAdd) == decorationSet \o toAdd

\* DecorationSet.find(start, end): the decorations that touch the range.
findDecorations(decorationSet, start, end) ==
  SelectSeq(decorationSet, LAMBDA decoration : decoration.from <= end /\ decoration.to >= start)

\* DecorationSet.find(undefined, undefined, spec => spec.id === id && ...).
findDecorationsById(decorationSet, id) ==
  SelectSeq(decorationSet, LAMBDA decoration :
    decoration.id = id /\ decoration.type = DECORATION_MATCH)

\* DecorationSet.remove: every decoration equal to one of those given goes.
removeDecorations(decorationSet, toRemove) ==
  SelectSeq(decorationSet, LAMBDA decoration :
    \A j \in 1..Len(toRemove) : toRemove[j] # decoration)

\* DecorationSet.map: an inline decoration that is not inclusive maps its
\* start forward and its end backward, and is dropped when nothing is left
\* of it; a mapping without steps leaves the set as it is.
mapDecorations(decorationSet, mapping) ==
  IF mapping = <<>> THEN decorationSet
  ELSE LET mapped == [i \in 1..Len(decorationSet) |->
                        [decorationSet[i] EXCEPT
                           !.from = MappingMap(mapping, @, 1),
                           !.to = MappingMap(mapping, @, -1)]]
       IN SelectSeq(mapped, LAMBDA decoration : decoration.from < decoration.to)

\* flatten: the lists of a list, one after the other.
RECURSIVE flatten(_)
flatten(lists) ==
  IF lists = <<>> THEN <<>> ELSE Head(lists) \o flatten(Tail(lists))

\* removeDecorationsFromRanges: for every range, the decorations that touch it
\* and the decorations that touch those are removed.
RECURSIVE removeDecorationsFromRangesInto(_, _, _)
removeDecorationsFromRangesInto(acc, decorationSet, ranges) ==
  IF ranges = <<>> THEN acc
  ELSE LET range == Head(ranges)
           found == findDecorations(decorationSet, range.from, range.to)
           decorationsToRemove ==
             flatten([i \in 1..Len(found) |->
                        findDecorations(decorationSet, found[i].from, found[i].to)])
       IN removeDecorationsFromRangesInto(
            IF found = <<>> THEN acc ELSE removeDecorations(acc, decorationsToRemove),
            decorationSet, Tail(ranges))

removeDecorationsFromRanges(decorationSet, ranges) ==
  removeDecorationsFromRangesInto(decorationSet, decorationSet, ranges)

\* getNewDecorationsForCurrentMatches: the decorations of the outputs are
\* added to the set.
getNewDecorationsForCurrentMatches(outputs, decorationSet) ==
  addDecorations(decorationSet, createDecorationsForMatches(outputs))

\* ------------------------------------------------------------------ state
VARIABLES
  docSize,              \* the size of the current document
  dirtiedRanges,        \* IPluginState.dirtiedRanges
  currentValidations,   \* IPluginState.currentValidations: outputs [id, from, to]
  validationsInFlight,  \* IPluginState.validationsInFlight: [id, validationInput, mapping]
  validationPending,    \* IPluginState.validationPending
  error,                \* IPluginState.error
  now,                  \* the timestamp of the latest dispatch of requests
  edits,                \* the number of edits so far
  outbox,               \* the requests the checking service has not answered yet
  timers,               \* the setTimeout callbacks scheduled and not yet run
  servicePending,       \* ValidationService.validationPending
  config,               \* [orchestrator, expandRanges]: what the plugin was created with
  appending,            \* an edit was applied and appendTransaction's transaction is due
  last,                 \* the latest transition and its payload
  since,                \* per in-flight request: what happened to the document since its dispatch
  answered,             \* answered requests whose response may be delivered once more
  selectedValidation,   \* IPluginState.selectedValidation
  hoverId,              \* IPluginState.hoverId
  hoverInfo,            \* IPluginState.hoverInfo
  debug,                \* IPluginState.debug
  notified,             \* what the store was given in the latest step
  viewState,            \* the plugin state of the editor state the view last showed
  currentThrottle,      \* IPluginState.currentThrottle
  initialThrottle,      \* IPluginState.initialThrottle
  maxThrottle,          \* IPluginState.maxThrottle
  objects,              \* per in-flight entry: the object that is the entry and its Mapping
  viewObjects,          \* the same for the in-flight entries of viewState
  heap,                 \* per live object: the step maps its Mapping holds
  decorations,          \* IPluginState.decorations: the inline decorations of the matches
  trHistory,            \* IPluginState.trHistory: the transactions applied, by their number
  applied               \* the number of transactions applied, where the history is recorded

\* The other fields of the plugin state.
otherFields == <<currentThrottle, initialThrottle, maxThrottle, decorations, trHistory>>

vars == <<docSize, dirtiedRanges, currentValidations, validationsInFlight,
          validationPending, error, now, edits, outbox, timers, servicePending, config,
          appending, last, since, answered, selectedValidation, hoverId, hoverInfo,
          debug, notified, viewState, currentThrottle, initialThrottle, maxThrottle,
          objects, viewObjects, heap, decorations, trHistory, applied>>

\* The plugin state the reducer works on.
State ==
  [dirtiedRanges |-> dirtiedRanges,
   currentValidations |-> currentValidations,
   validationsInFlight |-> validationsInFlight,
   validationPending |-> validationPending,
   error |-> error,
   selectedValidation |-> selectedValidation,
   hoverId |-> hoverId,
   hoverInfo |-> hoverInfo,
   debug |-> debug,
   currentThrottle |-> currentThrottle,
   initialThrottle |-> initialThrottle,
   maxThrottle |-> maxThrottle,
   decorations |-> decorations,
   trHistory |-> trHistory]

\* The plugin's options: the throttle and the largest throttle, in ms.
throttleInMs == 2000
maxThrottleOption == 8000

createInitialState ==
  [dirtiedRanges |-> <<>>,
   currentValidations |-> <<>>,
   validationsInFlight |-> <<>>,
   validationPending |-> FALSE,
   error |-> Undefined,
   selectedValidation |-> Undefined,
   hoverId |-> Undefined,
   hoverInfo |-> Undefined,
   debug |-> FALSE,
   currentThrottle |-> throttleInMs,
   initialThrottle |-> throttleInMs,
   maxThrottle |-> maxThrottleOption,
   decorations |-> <<>>,
   trHistory |-> <<>>]

\* --------------------------------------------------------------- selectors
\* The index of the first in-flight entry with this id, or NotFound.
selectValidationInFlightById(state, id) ==
  LET l == state.validationsInFlight
  IN IF \E i \in 1..Len(l) : l[i].id = id
     THEN CHOOSE i \in 1..Len(l) : l[i].id = id /\ \A j \in 1..(i - 1) : l[j].id # id
     ELSE NotFound

\* lodash without(list, entry): every in-flight entry is an object of its
\* own, so exactly the entry found is removed.
without(list, index) == [i \in 1..(Len(list) - 1) |-> IF i < index THEN list[i] ELSE list[i + 1]]

\* ----------------------------------------------------------------- reducer
\* remapInFlight forgetting to append the transaction's mapping.
remapInFlight_KeepsOldMapping(entry, tr) ==
  [entry EXCEPT !.mapping = appendMapping(<<>>, @)]

\* remapInFlight putting the transaction's mapping before the entry's.
remapInFlight_PrependsMapping(entry, tr) ==
  [entry EXCEPT !.mapping = appendMapping(appendMapping(<<>>, tr.mapping), @)]

\* An in-flight entry after a transaction: a new Mapping holding the entry's
\* mapping and then the transaction's.
remapInFlight(entry, tr) ==
  [entry EXCEPT !.mapping = appendMapping(appendMapping(<<>>, @), tr.mapping)]

\* What the reducer does on every transaction, before it looks at the action.
remapState(tr, incomingState) ==
  [incomingState EXCEPT
     !.decorations = mapDecorations(@, tr.mapping),
     !.dirtiedRanges = mapAndMergeRanges(@, tr.mapping),
     !.currentValidations = mapRanges(@, tr.mapping),
     !.validationsInFlight = [i \in 1..Len(@) |-> remapInFlight(@[i], tr)]]

\* handleNewDirtyRanges evicting by the ranges already dirtied, not the new ones.
handleNewDirtyRanges_EvictsByOldRanges(tr, state, ranges) ==
  [state EXCEPT
     !.validationPending = TRUE,
     !.currentValidations =
        SelectSeq(@, LAMBDA output :
                       findOverlappingRangeIndex(output, state.dirtiedRanges) = NotFound),
     !.dirtiedRanges = @ \o ranges]

\* handleNewDirtyRanges cancelling the requests in flight for the text that
\* has been dirtied.
handleNewDirtyRanges_CancelsInFlight(tr, state, ranges) ==
  [state EXCEPT
     !.validationPending = TRUE,
     !.currentValidations =
        SelectSeq(@, LAMBDA output : findOverlappingRangeIndex(output, ranges) = NotFound),
     !.validationsInFlight =
        SelectSeq(@, LAMBDA inFlight :
          findOverlappingRangeIndex(validationInputToRange(inFlight.validationInput), ranges)
            = NotFound),
     !.dirtiedRanges = @ \o ranges]

handleNewDirtyRanges(tr, state, ranges) ==
  [state EXCEPT
     !.validationPending = TRUE,
     !.decorations = removeDecorationsFromRanges(@, ranges),
     !.currentValidations =
        SelectSeq(@, LAMBDA output : findOverlappingRangeIndex(output, ranges) = NotFound),
     !.dirtiedRanges = @ \o ranges]

\* handleValidationRequestStart leaving the dirtied ranges in place.
handleValidationRequestStart_KeepsDirtiedRanges(validationInputs, tr, state) ==
  [state EXCEPT
     !.validationPending = FALSE,
     !.validationsInFlight = @ \o
        [i \in 1..Len(validationInputs) |->
           [id |-> ToString(tr.time), mapping |-> <<>>, validationInput |-> validationInputs[i]]]]

handleValidationRequestStart(validationInputs, tr, state) ==
  [state EXCEPT
     !.dirtiedRanges = <<>>,
     !.validationPending = FALSE,
     !.validationsInFlight = @ \o
        [i \in 1..Len(validationInputs) |->
           [id |-> ToString(tr.time), mapping |-> <<>>, validationInput |-> validationInputs[i]]]]

handleValidationRequestForDirtyRanges(tr, state, expand) ==
  handleValidationRequestStart(expandRanges(expand, state.dirtiedRanges, tr.docSize), tr, state)

\* handleValidationRequestForDocument starting from an empty in-flight list.
handleValidationRequestForDocument_DropsInFlight(tr, state) ==
  handleValidationRequestStart(createValidationInputsForDocument(tr.docSize), tr,
                               [state EXCEPT !.validationsInFlight = <<>>])

handleValidationRequestForDocument(tr, state) ==
  handleValidationRequestStart(createValidationInputsForDocument(tr.docSize), tr, state)

\* handleValidationRequestSuccess merging the outputs of a response that no
\* in-flight entry matches (with an identity mapping).
handleValidationRequestSuccess_MergesUnmatched(tr, state, response) ==
  LET index == selectValidationInFlightById(state, response.id)
      mapping == IF index = NotFound THEN <<>> ELSE state.validationsInFlight[index].mapping
      merged == getCurrentValidationsFromValidationResponse(
                  Range(0, 0), response.validationOutputs, state.currentValidations, mapping)
  IN [state EXCEPT
        !.validationsInFlight = IF index = NotFound THEN @ ELSE without(@, index),
        !.currentValidations = removeOverlappingRanges(merged, state.dirtiedRanges)]

\* handleValidationRequestSuccess adding the outputs to the current
\* validations without replacing the entries that carry their identifiers.
handleValidationRequestSuccess_AppendsOutputs(tr, state, response) ==
  LET index == selectValidationInFlightById(state, response.id)
      validationInFlight == state.validationsInFlight[index]
      appended == state.currentValidations
                    \o mapRanges(response.validationOutputs, validationInFlight.mapping)
  IN IF index = NotFound THEN state
     ELSE [state EXCEPT
             !.validationsInFlight = without(@, index),
             !.currentValidations = removeOverlappingRanges(appended, state.dirtiedRanges)]

\* handleValidationRequestSuccess accepting outputs without looking at the
\* dirtied ranges.
handleValidationRequestSuccess_NoDirtyCheck(tr, state, response) ==
  LET index == selectValidationInFlightById(state, response.id)
      validationInFlight == state.validationsInFlight[index]
      merged == getCurrentValidationsFromValidationResponse(
                  validationInFlight.validationInput, response.validationOutputs,
                  state.currentValidations, validationInFlight.mapping)
  IN IF index = NotFound THEN state
     ELSE [state EXCEPT
             !.validationsInFlight = without(@, index),
             !.currentValidations = merged]

handleValidationRequestSuccess(tr, state, response) ==
  LET index == selectValidationInFlightById(state, response.id)
      validationInFlight == state.validationsInFlight[index]
      merged == getCurrentValidationsFromValidationResponse(
                  validationInFlight.validationInput, response.validationOutputs,
                  state.currentValidations, validationInFlight.mapping)
      kept == removeOverlappingRanges(merged, state.dirtiedRanges)
  IN IF index = NotFound THEN state
     ELSE [state EXCEPT
             !.validationsInFlight = without(@, index),
             !.currentValidations = kept,
             !.decorations = getNewDecorationsForCurrentMatches(kept, @)]

\* handleValidationRequestError dirtying the failed input's range also when
\* no in-flight entry matches.
handleValidationRequestError_DirtiesUnmatched(tr, state, validationError) ==
  LET index == selectValidationInFlightById(state, validationError.id)
      mapping == IF index = NotFound THEN <<>> ELSE state.validationsInFlight[index].mapping
      ranges == mapRanges(<<validationInputToRange(validationError.validationInput)>>, mapping)
  IN [state EXCEPT
        !.dirtiedRanges = mergeRanges(@ \o ranges),
        !.validationsInFlight = IF index # NotFound THEN without(@, index) ELSE @,
        !.error = validationError.message]

\* handleValidationRequestError keeping the first error it was given.
handleValidationRequestError_KeepsFirstError(tr, state, validationError) ==
  LET index == selectValidationInFlightById(state, validationError.id)
      ranges == IF index # NotFound
                THEN mapRanges(<<validationInputToRange(validationError.validationInput)>>,
                               state.validationsInFlight[index].mapping)
                ELSE <<>>
  IN [state EXCEPT
        !.dirtiedRanges = IF Len(ranges) > 0 THEN mergeRanges(@ \o ranges) ELSE @,
        !.validationsInFlight = IF index # NotFound THEN without(@, index) ELSE @,
        !.error = IF @ = Undefined THEN validationError.message ELSE @]

\* handleValidationRequestError backing off: the throttle doubles, up to the
\* largest throttle, with every failure.
handleValidationRequestError_BacksOff(tr, state, validationError) ==
  LET index == selectValidationInFlightById(state, validationError.id)
      ranges == IF index # NotFound
                THEN mapRanges(<<validationInputToRange(validationError.validationInput)>>,
                               state.validationsInFlight[index].mapping)
                ELSE <<>>
  IN [state EXCEPT
        !.dirtiedRanges = IF Len(ranges) > 0 THEN mergeRanges(@ \o ranges) ELSE @,
        !.validationsInFlight = IF index # NotFound THEN without(@, index) ELSE @,
        !.error = validationError.message,
        !.currentThrottle = Min(2 * @, state.maxThrottle)]

handleValidationRequestError(tr, state, validationError) ==
  LET index == selectValidationInFlightById(state, validationError.id)
      ranges == IF index # NotFound
                THEN mapRanges(<<validationInputToRange(validationError.validationInput)>>,
                               state.validationsInFlight[index].mapping)
                ELSE <<>>
  IN [state EXCEPT
        !.dirtiedRanges = IF Len(ranges) > 0 THEN mergeRanges(@ \o ranges) ELSE @,
        !.validationsInFlight = IF index # NotFound THEN without(@, index) ELSE @,
        !.error = validationError.message]

handleSelectValidation_ClearsDirtied(tr, state, validationId) ==
  [state EXCEPT !.selectedValidation = validationId, !.dirtiedRanges = <<>>]

handleSelectValidation(tr, state, validationId) ==
  [state EXCEPT !.selectedValidation = validationId]

\* The first current validation with this id, as a list of at most one.
selectValidationById(state, id) ==
  LET found == SelectSeq(state.currentValidations, LAMBDA validation : validation.id = id)
  IN IF found = <<>> THEN <<>> ELSE <<Head(found)>>

\* The decoration of the hovered validation gives way to that of the new one.
\* The reduce over the incoming and the current hover adds to the set every
\* time, not to what it has accumulated: the later addition is what is left.
handleNewHoverId(tr, state, payload) ==
  LET incomingHoverId == payload.hoverId
      currentHoverId == state.hoverId
      removed == IF currentHoverId # Undefined
                 THEN removeDecorations(state.decorations,
                                        findDecorationsById(state.decorations, currentHoverId))
                 ELSE state.decorations
      step(acc, id, isHovering) ==
        LET output == IF id = Undefined THEN <<>> ELSE selectValidationById(state, id)
        IN IF output = <<>> THEN acc
           ELSE addDecorations(removed, createDecorationsForMatch(output[1], isHovering))
  IN [state EXCEPT
        !.decorations = step(step(removed, incomingHoverId, TRUE), currentHoverId, FALSE),
        !.hoverId = payload.hoverId,
        !.hoverInfo = payload.hoverInfo]

handleSetDebugState(tr, state, flag) ==
  [state EXCEPT !.debug = flag]

NoAction == [type |-> "NONE"]

validationPluginReducer(tr, incomingState, action) ==
  LET state == remapState(tr, incomingState)
  IN CASE action.type = "NONE" -> state
       [] action.type = "VALIDATION_REQUEST_FOR_DIRTY_RANGES" ->
            handleValidationRequestForDirtyRanges(tr, state, action.expandRanges)
       [] action.type = "VALIDATION_REQUEST_FOR_DOCUMENT" ->
            handleValidationRequestForDocument(tr, state)
       [] action.type = "VALIDATION_REQUEST_SUCCESS" ->
            handleValidationRequestSuccess(tr, state, action.response)
       [] action.type = "VALIDATION_REQUEST_ERROR" ->
            handleValidationRequestError(tr, state, action.validationError)
       [] action.type = "HANDLE_NEW_DIRTY_RANGES" ->
            handleNewDirtyRanges(tr, state, action.ranges)
       [] action.type = "NEW_HOVER_ID" -> handleNewHoverId(tr, state, action.payload)
       [] action.type = "SELECT_VALIDATION" ->
            handleSelectValidation(tr, state, action.validationId)
       [] action.type = "SET_DEBUG_STATE" -> handleSetDebugState(tr, state, action.debug)
       [] OTHER -> state

\* ------------------------------------------------------------ environment
Tr(mapping, time, size) ==
  [mapping |-> mapping, time |-> time, docSize |-> size, number |-> applied + 1]

\* The edits of a document of this size: one replace step each.
Edits(size) ==
  {sm \in [start : 0..size, oldSize : 0..MaxReplace, newSize : 0..MaxReplace] :
     /\ sm.oldSize + sm.newSize > 0
     /\ sm.start + sm.oldSize <= size
     /\ size - sm.oldSize + sm.newSize <= MaxDoc}

\* Sequences of 1..n elements of S.
SeqsUpTo(S, n) == UNION {[1..k -> S] : k \in 0..n}

\* What a checking service answers for an input: outputs inside the input's
\* range, with identifiers of their own, no two overlapping.
Outputs(validationInput) ==
  LET one == {[id |-> i, from |-> r.from, to |-> r.to] :
                i \in OutputIds,
                r \in {x \in RangesWithin(validationInput.from, validationInput.to) : x.from < x.to}}
  IN {os \in SeqsUpTo(one, MaxOutputs) :
        \A i, j \in 1..Len(os) :
          i < j => os[i].id # os[j].id /\ os[i].to <= os[j].from}

\* The ranges one RangesDirtied action carries: each covers some text.
DirtyArgs(size) ==
  SeqsUpTo({r \in RangesWithin(0, size) : r.from < r.to}, MaxDirtyArgs) \ {<<>>}

\* The timestamp of the next dispatch of requests.
Times == {t \in {now + 1} : t <= MaxTime}

\* The record of a transition: its kind, the id and the ranges or outputs it
\* carried, whether an in-flight entry matched the id, the outputs as mapped
\* to the current document, and how many current validations it evicted.
Last(type, id, ranges, outputs, mapped, found, n) ==
  [type |-> type, id |-> id, ranges |-> ranges, outputs |-> outputs,
   mapped |-> mapped, found |-> found, n |-> n, message |-> "", edit |-> <<>>,
   calls |-> <<>>, settled |-> [kind |-> "none"]]

Quiet(type) == Last(type, "", <<>>, <<>>, <<>>, FALSE, 0)

SetState(state) ==
  /\ dirtiedRanges' = state.dirtiedRanges
  /\ currentValidations' = state.currentValidations
  /\ validationsInFlight' = state.validationsInFlight
  /\ validationPending' = state.validationPending
  /\ error' = state.error
  /\ selectedValidation' = state.selectedValidation
  /\ hoverId' = state.hoverId
  /\ hoverInfo' = state.hoverInfo
  /\ debug' = state.debug
  /\ currentThrottle' = state.currentThrottle
  /\ initialThrottle' = state.initialThrottle
  /\ maxThrottle' = state.maxThrottle
  /\ decorations' = state.decorations
  /\ trHistory' = state.trHistory

\* lodash's difference: the elements of the array that are not, as objects,
\* among the values.
difference(array, values) ==
  SelectSeq(array, LAMBDA element :
    \A j \in 1..Len(values) : values[j].object # element.object)

\* The in-flight entries of a state that are not in-flight entries of the
\* old state. An in-flight list is given as its entries and their objects.
selectNewValidationInFlight(state, oldState) ==
  difference(state.validationsInFlight, oldState.validationsInFlight)

\* The entries of an in-flight list, each with the object it is.
InFlightObjects(list, listObjects) ==
  [i \in 1..Len(list) |-> [object |-> listObjects[i], entry |-> list[i]]]

\* The requests a dispatch has added to the in-flight list.
NewInFlight(state) == SubSeq(state.validationsInFlight, Len(validationsInFlight) + 1,
                             Len(state.validationsInFlight))

\* Every new in-flight entry is sent to the checking service.
Send(state) ==
  LET new == NewInFlight(state)
  IN /\ outbox' = outbox \o [i \in 1..Len(new) |->
                               [id |-> new[i].id, validationInput |-> new[i].validationInput]]
     /\ since' = since \o [i \in 1..Len(new) |-> [edits |-> <<>>, dirtied |-> <<>>]]

InitFrom(orchestrators, redeliveries, notifies, histories, editLimits, size, dirtied) ==
  /\ docSize = size
  /\ dirtiedRanges = dirtied
  /\ currentValidations = createInitialState.currentValidations
  /\ validationsInFlight = createInitialState.validationsInFlight
  /\ validationPending = createInitialState.validationPending
  /\ error = createInitialState.error
  /\ selectedValidation = createInitialState.selectedValidation
  /\ hoverId = createInitialState.hoverId
  /\ hoverInfo = createInitialState.hoverInfo
  /\ debug = createInitialState.debug
  /\ currentThrottle = createInitialState.currentThrottle
  /\ initialThrottle = createInitialState.initialThrottle
  /\ maxThrottle = createInitialState.maxThrottle
  /\ decorations = createInitialState.decorations
  /\ trHistory = createInitialState.trHistory
  /\ applied = 0
  /\ now = 0
  /\ edits = 0
  /\ outbox = <<>>
  /\ timers = 0
  /\ servicePending = FALSE
  /\ config \in [orchestrator : orchestrators, expandRanges : ExpandFns,
                  redelivery : redeliveries, notify : notifies, history : histories,
                  edits : editLimits]
  /\ appending = FALSE
  /\ last = Quiet("INIT")
  /\ since = <<>>
  /\ answered = <<>>
  /\ notified = <<>>
  /\ viewState = createInitialState
  /\ objects = <<>>
  /\ viewObjects = <<>>
  /\ heap = <<>>

InitWith(orchestrators, redeliveries, editLimits) ==
  InitFrom(orchestrators, redeliveries, {FALSE}, {FALSE}, editLimits, InitDoc,
           createInitialState.dirtiedRanges)

\* The most transactions the history holds before it drops one.
historyLimit == 25

\* The history with one more transaction, the latest dropping the first.
keepHistory_DropsLatest(history, tr) ==
  IF Len(history) > historyLimit
  THEN SubSeq(history, 1, Len(history) - 1) \o <<tr.number>>
  ELSE history \o <<tr.number>>

\* The history with one more transaction: a full history drops its first.
keepHistory(history, tr) ==
  IF Len(history) > historyLimit
  THEN Tail(history) \o <<tr.number>>
  ELSE history \o <<tr.number>>

\* The plugin's apply: it maps the dirtied ranges and the current validations
\* through the transaction, adds the transaction to the history (where the
\* history is recorded) and hands the result to the reducer.
apply(tr, state, action) ==
  LET newState == [state EXCEPT
                     !.trHistory = IF config.history THEN keepHistory(@, tr) ELSE @,
                     !.decorations = mapDecorations(@, tr.mapping),
                     !.dirtiedRanges = mapAndMergeRanges(@, tr.mapping),
                     !.currentValidations = mapRanges(@, tr.mapping)]
  IN validationPluginReducer(tr, newState, action)

\* The plugin state after a transaction: createValidationPlugin's apply, or the
\* reducer alone where the service is the orchestrator.
Transition(tr, state, action) ==
  IF config.orchestrator = "plugin" THEN apply(tr, state, action)
  ELSE validationPluginReducer(tr, state, action)

\* scheduleValidation of the plugin: one more timer.
\* scheduleValidation of the service: one more timer unless one is pending.
WouldSchedule(pending) ==
  IF config.orchestrator = "plugin" THEN ~pending ELSE ~servicePending

scheduleValidation(pending, fired) ==
  IF WouldSchedule(pending)
  THEN /\ timers' = timers - fired + 1
       /\ servicePending' = (config.orchestrator = "service")
  ELSE /\ timers' = timers - fired
       /\ servicePending' = servicePending

\* The most edits in a run of the configuration at hand.
EditLimit == config.edits

\* The objects of a list.
Elements(list) == {list[i] : i \in 1..Len(list)}

\* The least n objects that are not in use.
RECURSIVE Allocate(_, _)
Allocate(n, used) ==
  IF n = 0 THEN <<>>
  ELSE LET object == CHOOSE r \in 1..(Cardinality(used) + 1) :
                       r \notin used /\ \A q \in 1..(r - 1) : q \in used
       IN <<object>> \o Allocate(n - 1, used \cup {object})

\* The index of the entry a handler filtered out of the in-flight list, or
\* NotFound: the handlers remove one entry, or append entries.
removedIndex(old, new) ==
  IF Len(new) >= Len(old) THEN NotFound
  ELSE CHOOSE i \in 1..Len(old) :
         /\ i > Len(new) \/ new[i].id # old[i].id
                         \/ new[i].validationInput # old[i].validationInput
         /\ \A j \in 1..(i - 1) : /\ new[j].id = old[j].id
                                  /\ new[j].validationInput = old[j].validationInput

\* The entry of the old in-flight list that entry i of the new list was
\* mapped from, or NotFound for an entry the transition created.
mappedFrom(i, old, new) ==
  LET removed == removedIndex(old, new)
      j == IF removed # NotFound /\ i >= removed THEN i + 1 ELSE i
  IN IF j <= Len(old) THEN j ELSE NotFound

\* The re-mapping of an in-flight entry keeping the entry's Mapping and
\* appending the transaction's mapping to it.
remappedObject_InPlace(object, new) ==
  object

\* The re-mapping of an in-flight entry: a new entry object with a new
\* Mapping, to which the entry's mapping and the transaction's are appended.
remappedObject(object, new) ==
  new

\* The objects of the in-flight list the reducer returns: one for every entry
\* that was re-mapped, and a new one for every entry that was created.
reducedObjects(old, new) ==
  LET fresh == Allocate(Len(new), Elements(objects) \cup Elements(viewObjects))
  IN [i \in 1..Len(new) |->
        IF mappedFrom(i, old, new) = NotFound THEN fresh[i]
        ELSE remappedObject(objects[mappedFrom(i, old, new)], fresh[i])]

\* The plugin view's update, which the editor view calls once it shows a new
\* editor state, with the editor state it showed before: after a dispatch,
\* the transactions appendTransaction added included. The store is notified
\* where notifications are recorded.
update ==
  /\ IF config.notify /\ ~appending'
     THEN /\ notified' = <<[new |-> State', previous |-> viewState]>>
          /\ viewState' = State'
     ELSE /\ notified' = <<>>
          /\ UNCHANGED viewState
  /\ IF config.notify
     THEN /\ objects' = reducedObjects(validationsInFlight, validationsInFlight')
          /\ viewObjects' = IF appending' THEN viewObjects ELSE objects'
          /\ heap' = [object \in Elements(objects') \cup Elements(viewObjects') |->
                        IF \E i \in 1..Len(objects') : objects'[i] = object
                        THEN validationsInFlight'[
                               CHOOSE i \in 1..Len(objects') : objects'[i] = object].mapping
                        ELSE heap[object]]
     ELSE UNCHANGED <<objects, viewObjects, heap>>
  /\ applied' = IF config.history THEN applied + 1 ELSE applied

\* A step that dispatches no transaction: the view is not updated.
noUpdate ==
  /\ notified' = <<>>
  /\ UNCHANGED <<viewState, objects, viewObjects, heap, applied>>

\* A transaction that changes the document, with no action: the reducer
\* re-maps the state; appendTransaction then finds the ranges the
\* transaction replaced, schedules a validation and has its own transaction
\* (RangesDirtied) follow.
Edit(sm) ==
  /\ ~appending
  /\ sm \in Edits(docSize)
  /\ edits < EditLimit
  /\ edits' = edits + 1
  /\ \A i \in 1..Len(validationsInFlight) : Len(validationsInFlight[i].mapping) < MaxMapLen
  /\ LET size == docSize - sm.oldSize + sm.newSize
         state == Transition(Tr(<<sm>>, now, size), State, NoAction)
     IN /\ WouldSchedule(state.validationPending) => timers < MaxTimers
        /\ SetState(state)
        /\ docSize' = size
        /\ scheduleValidation(state.validationPending, 0)
  /\ appending' = TRUE
  /\ since' = [i \in 1..Len(since) |->
                 [edits |-> Append(since[i].edits, sm),
                  dirtied |-> mapAndMergeRanges(since[i].dirtied, <<sm>>)]]
  /\ last' = [Quiet("EDIT") EXCEPT !.edit = <<sm>>]
  /\ UNCHANGED <<now, outbox, config, answered>>
  /\ update

\* appendTransaction's transaction: the action applyNewDirtiedRanges(ranges).
RangesDirtied(ranges) ==
  /\ appending
  /\ ranges \in DirtyArgs(docSize)
  /\ SetState(Transition(Tr(<<>>, now, docSize), State,
                [type |-> "HANDLE_NEW_DIRTY_RANGES", ranges |-> ranges]))
  /\ appending' = FALSE
  /\ since' = [i \in 1..Len(since) |->
                 [since[i] EXCEPT !.dirtied = mergeRanges(@ \o ranges)]]
  /\ last' = Last("RANGES_DIRTIED", "", ranges, <<>>, <<>>, FALSE,
                  Len(currentValidations) - Len(currentValidations'))
  /\ UNCHANGED <<docSize, now, edits, outbox, timers, servicePending, config, answered>>
  /\ update

\* What requestValidation takes for "a request is in flight". The service
\* reads the in-flight list. The plugin reads pluginState.validationInFlight,
\* which IPluginState does not have and no handler sets: undefined, so false.
InFlightSeen ==
  IF config.orchestrator = "plugin" THEN FALSE ELSE Len(validationsInFlight) > 0

\* The timer fires while a request is in flight: requestValidation defers.
\* A deferral that does not schedule the timer again.
TimerDefer_DropsTimer ==
  /\ ~appending
  /\ timers > 0
  /\ InFlightSeen
  /\ timers' = timers - 1
  /\ servicePending' = FALSE
  /\ last' = Quiet("TIMER_DEFER")
  /\ UNCHANGED <<docSize, dirtiedRanges, currentValidations, validationsInFlight,
                 validationPending, error, now, edits, outbox, config, appending, since,
                 answered, selectedValidation, hoverId, hoverInfo, debug>>
  /\ UNCHANGED otherFields
  /\ noUpdate

TimerDefer ==
  /\ ~appending
  /\ timers > 0
  /\ InFlightSeen
  /\ timers' = timers
  /\ servicePending' = (config.orchestrator = "service")
  /\ last' = Quiet("TIMER_DEFER")
  /\ UNCHANGED <<docSize, dirtiedRanges, currentValidations, validationsInFlight,
                 validationPending, error, now, edits, outbox, config, appending, since,
                 answered, selectedValidation, hoverId, hoverInfo, debug>>
  /\ UNCHANGED otherFields
  /\ noUpdate

\* The timer fires with nothing in flight: requestValidation dispatches
\* validationRequestForDirtyRanges(expandRanges).
TimerDispatch(t) ==
  /\ ~appending
  /\ timers > 0
  /\ ~InFlightSeen
  /\ t \in Times
  /\ LET state == Transition(Tr(<<>>, t, docSize), State,
                    [type |-> "VALIDATION_REQUEST_FOR_DIRTY_RANGES",
                     expandRanges |-> config.expandRanges])
     IN /\ Len(state.validationsInFlight) <= MaxInFlight
        /\ SetState(state)
        /\ Send(state)
  /\ timers' = timers - 1
  /\ servicePending' = FALSE
  /\ now' = t
  /\ last' = Last("REQUEST_FOR_DIRTY_RANGES", ToString(t), <<>>, <<>>, <<>>, FALSE, 0)
  /\ UNCHANGED <<docSize, edits, config, appending, answered>>
  /\ update

\* The user asks for a check of the whole document.
RequestForDocument(t) ==
  /\ ~appending
  /\ t \in Times
  /\ LET state == Transition(Tr(<<>>, t, docSize), State,
                    [type |-> "VALIDATION_REQUEST_FOR_DOCUMENT"])
     IN /\ Len(state.validationsInFlight) <= MaxInFlight
        /\ SetState(state)
        /\ Send(state)
  /\ now' = t
  /\ last' = Last("REQUEST_FOR_DOCUMENT", ToString(t), <<>>, <<>>, <<>>, FALSE, 0)
  /\ UNCHANGED <<docSize, edits, timers, servicePending, config, appending, answered>>
  /\ update

\* The in-flight entry a response resolves leaves the list; so does its record.
Resolve(id) ==
  LET index == selectValidationInFlightById(State, id)
  IN since' = IF index = NotFound THEN since ELSE without(since, index)

\* An answered request is remembered where a response can come twice.
Answer(request) ==
  answered' = IF config.redelivery /\ Len(answered) < MaxAnswered
              THEN Append(answered, request) ELSE answered

Found(id) == selectValidationInFlightById(State, id) # NotFound

\* Ranges as the in-flight entry with this id maps them (none without an entry).
MappedBy(id, ranges) ==
  IF Found(id)
  THEN mapRanges(ranges, validationsInFlight[selectValidationInFlightById(State, id)].mapping)
  ELSE <<>>

\* What the adapter's fetchValidationOutputs does: it returns outputs, or it
\* throws an error with a message.
Fetched(outputs) == [ok |-> TRUE, validationOutputs |-> outputs]
Thrown(message) == [ok |-> FALSE, message |-> message]

\* validate whose promise rejects after it has reported the adapter's error.
validate_Rethrows(validationInput, outcome) ==
  IF outcome.ok
  THEN [calls |-> <<[command |-> "applyValidationResult",
                     validationOutputs |-> outcome.validationOutputs,
                     validationInput |-> validationInput]>>,
        settled |-> [kind |-> "resolved", value |-> [type |-> "undefined"]]]
  ELSE [calls |-> <<[command |-> "applyValidationError",
                     validationInput |-> validationInput,
                     message |-> outcome.message]>>,
        settled |-> [kind |-> "rejected", value |-> [type |-> "error",
                                                     validationInput |-> validationInput,
                                                     message |-> outcome.message]]]

\* ValidationService.validate: the commands it calls, in order, and how the
\* promise it returns settles.
validate(validationInput, outcome) ==
  IF outcome.ok
  THEN [calls |-> <<[command |-> "applyValidationResult",
                     validationOutputs |-> outcome.validationOutputs,
                     validationInput |-> validationInput]>>,
        settled |-> [kind |-> "resolved", value |-> [type |-> "undefined"]]]
  ELSE [calls |-> <<[command |-> "applyValidationError",
                     validationInput |-> validationInput,
                     message |-> outcome.message]>>,
        settled |-> [kind |-> "resolved", value |-> [type |-> "error",
                                                     validationInput |-> validationInput,
                                                     message |-> outcome.message]]]

\* The commands: the actions they dispatch for the request with this id.
applyValidationResult(call, id) ==
  [type |-> "VALIDATION_REQUEST_SUCCESS",
   response |-> [id |-> id, validationOutputs |-> call.validationOutputs]]

applyValidationError(call, id) ==
  [type |-> "VALIDATION_REQUEST_ERROR",
   validationError |-> [id |-> id, validationInput |-> call.validationInput,
                        message |-> call.message]]

\* The number of current validations that carry the identifier of an output.
Replaced(outputs) ==
  Cardinality({j \in 1..Len(currentValidations) :
                 \E k \in 1..Len(outputs) : currentValidations[j].id = outputs[k].id})

\* The checking service answers request i: validationRequestSuccess.
RequestSucceeded(i, outputs) ==
  /\ ~appending
  /\ i \in 1..Len(outbox)
  /\ outputs \in Outputs(outbox[i].validationInput)
  /\ LET call == validate(outbox[i].validationInput, Fetched(outputs)).calls[1]
         action == applyValidationResult(call, outbox[i].id)
         state == Transition(Tr(<<>>, now, docSize), State, action)
     IN SetState(state)
  /\ outbox' = without(outbox, i)
  /\ Resolve(outbox[i].id)
  /\ Answer(outbox[i])
  /\ last' = [Last("REQUEST_SUCCEEDED", outbox[i].id, <<outbox[i].validationInput>>, outputs,
                   MappedBy(outbox[i].id, outputs), Found(outbox[i].id), Replaced(outputs))
                EXCEPT !.calls = validate(outbox[i].validationInput, Fetched(outputs)).calls,
                       !.settled = validate(outbox[i].validationInput, Fetched(outputs)).settled]
  /\ UNCHANGED <<docSize, now, edits, timers, servicePending, config, appending>>
  /\ update

\* The checking service fails request i: validationRequestError.
RequestFailed(i, message) ==
  /\ ~appending
  /\ i \in 1..Len(outbox)
  /\ message \in Messages
  /\ LET call == validate(outbox[i].validationInput, Thrown(message)).calls[1]
         action == applyValidationError(call, outbox[i].id)
         state == Transition(Tr(<<>>, now, docSize), State, action)
     IN SetState(state)
  /\ outbox' = without(outbox, i)
  /\ Resolve(outbox[i].id)
  /\ Answer(outbox[i])
  /\ last' = [Last("REQUEST_FAILED", outbox[i].id, <<outbox[i].validationInput>>, <<>>,
                   <<>>, Found(outbox[i].id), 0)
                EXCEPT !.message = message,
                       !.calls = validate(outbox[i].validationInput, Thrown(message)).calls,
                       !.settled = validate(outbox[i].validationInput, Thrown(message)).settled]
  /\ UNCHANGED <<docSize, now, edits, timers, servicePending, config, appending>>
  /\ update

Next ==
  \/ \E sm \in Edits(docSize) : Edit(sm)
  \/ \E ranges \in DirtyArgs(docSize) : RangesDirtied(ranges)
  \/ TimerDefer
  \/ \E t \in Times : TimerDispatch(t)
  \/ \E t \in Times : RequestForDocument(t)
  \/ \E i \in 1..Len(outbox) : \E outputs \in Outputs(outbox[i].validationInput) :
       RequestSucceeded(i, outputs)
  \/ \E i \in 1..Len(outbox) : \E message \in Messages : RequestFailed(i, message)

\* The plugin with the validation service as its orchestrator.
Init == InitWith({"service"}, {FALSE}, {MaxEdits})
Spec == Init /\ [][Next]_vars

\* The plugin with its own timer (createValidationPlugin) as its orchestrator.
PluginInit == InitWith({"plugin"}, {FALSE}, {MaxEdits})
PluginNext ==
  \/ \E sm \in Edits(docSize) : Edit(sm)
  \/ \E ranges \in DirtyArgs(docSize) : RangesDirtied(ranges)
  \/ \E t \in Times : TimerDispatch(t)
  \/ \E t \in Times : RequestForDocument(t)
  \/ \E i \in 1..Len(outbox) : \E outputs \in Outputs(outbox[i].validationInput) :
       RequestSucceeded(i, outputs)
  \/ \E i \in 1..Len(outbox) : \E message \in Messages : RequestFailed(i, message)
PluginSpec == PluginInit /\ [][PluginNext]_vars

\* A response arrives for a request that has been answered before:
\* validationRequestSuccess once more.
RepeatSucceeded(i, outputs) ==
  /\ ~appending
  /\ i \in 1..Len(answered)
  /\ outputs \in Outputs(answered[i].validationInput)
  /\ SetState(Transition(Tr(<<>>, now, docSize), State,
                applyValidationResult(
                  validate(answered[i].validationInput, Fetched(outputs)).calls[1], answered[i].id)))
  /\ answered' = without(answered, i)
  /\ Resolve(answered[i].id)
  /\ last' = [Last("REQUEST_SUCCEEDED", answered[i].id, <<answered[i].validationInput>>, outputs,
                   MappedBy(answered[i].id, outputs), Found(answered[i].id), Replaced(outputs))
                EXCEPT !.calls = validate(answered[i].validationInput, Fetched(outputs)).calls,
                       !.settled = validate(answered[i].validationInput, Fetched(outputs)).settled]
  /\ UNCHANGED <<docSize, now, edits, outbox, timers, servicePending, config, appending>>
  /\ update

\* validationRequestError once more.
RepeatFailed(i, message) ==
  /\ ~appending
  /\ i \in 1..Len(answered)
  /\ message \in Messages
  /\ SetState(Transition(Tr(<<>>, now, docSize), State,
                applyValidationError(
                  validate(answered[i].validationInput, Thrown(message)).calls[1], answered[i].id)))
  /\ answered' = without(answered, i)
  /\ Resolve(answered[i].id)
  /\ last' = [Last("REQUEST_FAILED", answered[i].id, <<answered[i].validationInput>>, <<>>,
                   <<>>, Found(answered[i].id), 0)
                EXCEPT !.message = message,
                       !.calls = validate(answered[i].validationInput, Thrown(message)).calls,
                       !.settled = validate(answered[i].validationInput, Thrown(message)).settled]
  /\ UNCHANGED <<docSize, now, edits, outbox, timers, servicePending, config, appending>>
  /\ update

\* The plugin where a response may be delivered a second time.
RedeliveryNext ==
  \/ Next
  \/ \E i \in 1..Len(answered) : \E outputs \in Outputs(answered[i].validationInput) :
       RepeatSucceeded(i, outputs)
  \/ \E i \in 1..Len(answered) : \E message \in Messages : RepeatFailed(i, message)
RedeliveryInit == InitWith({"service"}, {TRUE}, {MaxRedeliveryEdits})
RedeliverySpec == RedeliveryInit /\ [][RedeliveryNext]_vars

\* The validations the user points at, and what the user hovers over: a
\* validation and where it is on the screen, or nothing.
UiIds == {"a"}
Hovers == {[hoverId |-> Undefined, hoverInfo |-> Undefined]}
            \cup [hoverId : UiIds, hoverInfo : {"info"}]

\* The user selects a validation: selectValidation(validationId).
Select(validationId) ==
  /\ ~appending
  /\ validationId \in UiIds
  /\ SetState(Transition(Tr(<<>>, now, docSize), State,
                [type |-> "SELECT_VALIDATION", validationId |-> validationId]))
  /\ last' = Last("SELECT", validationId, <<>>, <<>>, <<>>, FALSE, 0)
  /\ UNCHANGED <<docSize, now, edits, outbox, timers, servicePending, config, appending,
                 since, answered>>
  /\ update

\* The pointer moves: newHoverIdReceived(hoverId, hoverInfo).
Hover(payload) ==
  /\ ~appending
  /\ SetState(Transition(Tr(<<>>, now, docSize), State,
                [type |-> "NEW_HOVER_ID", payload |-> payload]))
  /\ last' = Last("HOVER", payload.hoverId, <<>>, <<>>, <<>>, FALSE, 0)
  /\ UNCHANGED <<docSize, now, edits, outbox, timers, servicePending, config, appending,
                 since, answered>>
  /\ update

\* Debug mode is switched: setDebugState(debug).
SetDebug(flag) ==
  /\ ~appending
  /\ flag \in BOOLEAN
  /\ SetState(Transition(Tr(<<>>, now, docSize), State,
                [type |-> "SET_DEBUG_STATE", debug |-> flag]))
  /\ last' = Last("SET_DEBUG", "", <<>>, <<>>, <<>>, flag, 0)
  /\ UNCHANGED <<docSize, now, edits, outbox, timers, servicePending, config, appending,
                 since, answered>>
  /\ update

\* The plugin with the user selecting, hovering and switching debug mode.
UiNext ==
  \/ Next
  \/ \E validationId \in UiIds : Select(validationId)
  \/ \E payload \in Hovers : Hover(payload)
  \/ \E flag \in BOOLEAN : SetDebug(flag)
UiInit == InitWith({"service"}, {FALSE}, {MaxUiEdits})
UiSpec == UiInit /\ [][UiNext]_vars

\* The plugin with the pointer moving over the matches of either identifier.
HoverIds == OutputIds
MatchHovers == {[hoverId |-> Undefined, hoverInfo |-> Undefined]}
                 \cup [hoverId : HoverIds, hoverInfo : {"info"}]
HoverNext ==
  \/ \E sm \in Edits(docSize) : Edit(sm)
  \/ \E ranges \in DirtyArgs(docSize) : RangesDirtied(ranges)
  \/ \E t \in Times : RequestForDocument(t)
  \/ \E i \in 1..Len(outbox) : \E outputs \in Outputs(outbox[i].validationInput) :
       RequestSucceeded(i, outputs)
  \/ \E payload \in MatchHovers : Hover(payload)
HoverInit == InitWith({"service"}, {FALSE}, {MaxHoverEdits})
HoverSpec == HoverInit /\ [][HoverNext]_vars

\* The plugin with its transaction history recorded, over the transactions of
\* the user selecting, hovering and switching debug mode.
HistoryNext ==
  \/ \E validationId \in UiIds : applied < MaxTransactions /\ Select(validationId)
  \/ \E payload \in Hovers : applied < MaxTransactions /\ Hover(payload)
  \/ \E flag \in BOOLEAN : applied < MaxTransactions /\ SetDebug(flag)
HistoryInit ==
  InitFrom({"plugin"}, {FALSE}, {FALSE}, {TRUE}, {MaxEdits}, InitDoc,
           createInitialState.dirtiedRanges)
HistorySpec == HistoryInit /\ [][HistoryNext]_vars

\* The state two edits lead to, the first inserting a character at the start
\* of the document and the second deleting it, with a range dirtied after
\* each: two dirtied ranges, the flag set, and a timer outstanding.
TwoRangesDirtied ==
  /\ docSize = InitDoc
  /\ dirtiedRanges = <<Range(0, 0), Range(1, 2)>>
  /\ currentValidations = <<>>
  /\ validationsInFlight = <<>>
  /\ validationPending = TRUE
  /\ error = Undefined
  /\ selectedValidation = Undefined
  /\ hoverId = Undefined
  /\ hoverInfo = Undefined
  /\ debug = FALSE
  /\ currentThrottle = createInitialState.currentThrottle
  /\ initialThrottle = createInitialState.initialThrottle
  /\ maxThrottle = createInitialState.maxThrottle
  /\ decorations = createInitialState.decorations
  /\ trHistory = createInitialState.trHistory
  /\ applied = 0
  /\ now = 0
  /\ outbox = <<>>
  /\ timers = 1
  /\ servicePending = TRUE
  /\ appending = FALSE
  /\ last = Last("RANGES_DIRTIED", "", <<Range(1, 2)>>, <<>>, <<>>, FALSE, 0)
  /\ since = <<>>
  /\ answered = <<>>
  /\ notified = <<>>
  /\ viewState = createInitialState
  /\ objects = <<>>
  /\ viewObjects = <<>>
  /\ heap = <<>>

\* Responses delivered twice, from that state on.
LaterRedeliveryInit ==
  /\ TwoRangesDirtied
  /\ edits = 0
  /\ config \in [orchestrator : {"service"}, expandRanges : ExpandFns,
                  redelivery : {TRUE}, notify : {FALSE}, history : {FALSE},
                  edits : {MaxLaterEdits}]
LaterRedeliverySpec == LaterRedeliveryInit /\ [][RedeliveryNext]_vars

\* The plugin with the store's notifications recorded.
NotifyInit ==
  InitFrom({"plugin"}, {FALSE}, {TRUE}, {FALSE}, {MaxNotifyEdits}, InitDoc,
           createInitialState.dirtiedRanges)
NotifySpec == NotifyInit /\ [][PluginNext]_vars

\* mergeRanges on its own: any list of ranges of a document is merged.
Merge ==
  /\ dirtiedRanges' = mergeRanges(dirtiedRanges)
  /\ last' = Last("MERGE", "", dirtiedRanges, <<>>, <<>>, FALSE, 0)
  /\ UNCHANGED <<docSize, currentValidations, validationsInFlight, validationPending,
                 error, now, edits, outbox, timers, servicePending, config, appending,
                 since, answered, selectedValidation, hoverId, hoverInfo, debug>>
  /\ UNCHANGED otherFields
  /\ noUpdate

MergeNext == Merge
MergeInit ==
  \E ranges \in SeqsUpTo(RangesWithin(0, MaxDoc), MaxMerge) :
    InitFrom({"service"}, {FALSE}, {FALSE}, {FALSE}, {MaxEdits}, MaxDoc, ranges)
MergeSpec == MergeInit /\ [][MergeNext]_vars

\* The timers fire, the checking service answers, and appendTransaction's
\* transaction follows the edit it belongs to.
Fairness ==
  /\ WF_vars(TimerDefer)
  /\ WF_vars(\E t \in Times : TimerDispatch(t))
  /\ WF_vars(\E ranges \in DirtyArgs(docSize) : RangesDirtied(ranges))
  /\ WF_vars(\E i \in 1..Len(outbox) : \E outputs \in Outputs(outbox[i].validationInput) :
               RequestSucceeded(i, outputs))
FairSpec == Init /\ [][Next]_vars /\ Fairness

\* The oldest outstanding request is answered, with outputs or with an
\* error: the steps RequestSucceeded(1, outputs) and RequestFailed(1, message)
\* are the steps that take the head off the outbox, and one of them can be
\* taken whenever the outbox is not empty outside a dispatch.
Responded ==
  /\ ~appending
  /\ outbox # <<>>
  /\ outbox' = Tail(outbox)

\* The timers fire, appendTransaction's transaction follows its edit, and
\* every request is answered, one way or the other.
DispatchFairness ==
  /\ WF_vars(TimerDefer)
  /\ WF_vars(\E t \in Times : TimerDispatch(t))
  /\ WF_vars(\E ranges \in DirtyArgs(docSize) : RangesDirtied(ranges))
  /\ WF_outbox(Responded)
DispatchInit == InitWith({"service"}, {FALSE}, {MaxDispatchEdits})
DispatchSpec == DispatchInit /\ [][Next]_vars /\ DispatchFairness

\* ------------------------------------------------------------------ claims
Indices(seq) == 1..Len(seq)

\* The in-flight entry a response with this id resolves.
Matched(id) == validationsInFlight[selectValidationInFlightById(State, id)]

\* C1: in every reachable state no element of currentValidations overlaps
\* an element of dirtiedRanges.
C1_NoValidationOverlapsDirtied ==
  \A i \in Indices(currentValidations) : \A j \in Indices(dirtiedRanges) :
    ~Overlaps(currentValidations[i], dirtiedRanges[j])

\* C2: an output returned for a request is merged into currentValidations
\* only if its mapped range overlaps no range dirtied between the request's
\* dispatch and its resolution, also when a later dispatch has cleared those
\* ranges from dirtiedRanges.
C2_AcceptedOnlyIfNotDirtiedSinceDispatch ==
  [][(last'.type = "REQUEST_SUCCEEDED" /\ Found(last'.id)) =>
       LET index == selectValidationInFlightById(State, last'.id)
       IN \A k \in Indices(last'.outputs) :
            LET output == mapRange(last'.outputs[k], Matched(last'.id).mapping)
            IN (\E j \in Indices(currentValidations') : currentValidations'[j] = output) =>
                 \A d \in Indices(since[index].dirtied) :
                   ~Overlaps(output, since[index].dirtied[d])]_vars

\* C3: on RequestSucceeded for an in-flight id, every incoming output whose
\* mapped range overlaps a range currently in dirtiedRanges is absent from
\* currentValidations afterwards.
C3_StaleOutputRejected ==
  [][(last'.type = "REQUEST_SUCCEEDED" /\ Found(last'.id)) =>
       \A k \in Indices(last'.outputs) :
         LET output == mapRange(last'.outputs[k], Matched(last'.id).mapping)
         IN (\E d \in Indices(dirtiedRanges) : Overlaps(output, dirtiedRanges[d])) =>
              \A j \in Indices(currentValidations') :
                ~(currentValidations'[j].id = output.id
                  \/ (currentValidations'[j].from = output.from
                      /\ currentValidations'[j].to = output.to))]_vars

\* A response has just been applied to a request in flight for [0,2), after
\* [1,2) was dirtied: its output at [1,2) is not among the current validations.
C3_Witness ==
  /\ last.type = "REQUEST_SUCCEEDED"
  /\ last.found
  /\ \E k \in Indices(last.mapped) : \E d \in Indices(dirtiedRanges) :
       /\ Overlaps(last.mapped[k], dirtiedRanges[d])
       /\ \A j \in Indices(currentValidations) : currentValidations[j].id # last.mapped[k].id

\* C4: in every reachable state no two distinct elements of
\* currentValidations overlap.
C4_ValidationsPairwiseDisjoint ==
  \A i, j \in Indices(currentValidations) :
    i # j => ~Overlaps(currentValidations[i], currentValidations[j])

\* C5: RangesDirtied(ranges) removes from currentValidations every entry
\* that overlaps one of the new ranges, keeps every other entry (in order),
\* and sets validationPending.
C5_DirtyEvictsExactlyOverlapping ==
  [][last'.type = "RANGES_DIRTIED" =>
       /\ validationPending'
       /\ currentValidations' =
            SelectSeq(currentValidations,
                      LAMBDA v : \A k \in Indices(last'.ranges) : ~Overlaps(v, last'.ranges[k]))]_vars

\* RangesDirtied has just evicted one current validation and kept another.
C5_Witness ==
  /\ last.type = "RANGES_DIRTIED"
  /\ last.n > 0
  /\ validationPending
  /\ currentValidations # <<>>

\* A range translated through a list of edits, one edit at a time.
RECURSIVE TranslateThrough(_, _)
TranslateThrough(range, stepMaps) ==
  IF stepMaps = <<>> THEN range
  ELSE TranslateThrough(mapRange(range, <<Head(stepMaps)>>), Tail(stepMaps))

\* C6: when a request succeeds, each accepted output's range is the output's
\* original range translated through every edit applied to the document since
\* the request was dispatched, in order.
C6_AcceptedRangeFollowsEdits ==
  [][(last'.type = "REQUEST_SUCCEEDED" /\ Found(last'.id)) =>
       LET index == selectValidationInFlightById(State, last'.id)
       IN \A k \in Indices(last'.outputs) : \A j \in Indices(currentValidations') :
            currentValidations'[j].id = last'.outputs[k].id =>
              currentValidations'[j] = TranslateThrough(last'.outputs[k], since[index].edits)]_vars

\* An output has just been accepted at a range that an insertion made while
\* its request was in flight has shifted to the right.
C6_Witness ==
  /\ last.type = "REQUEST_SUCCEEDED"
  /\ last.found
  /\ \E k \in Indices(last.outputs) : \E j \in Indices(currentValidations) :
       /\ currentValidations[j].id = last.outputs[k].id
       /\ currentValidations[j].from > last.outputs[k].from
       /\ currentValidations[j].to - currentValidations[j].from
            = last.outputs[k].to - last.outputs[k].from

\* The state a handler receives in a transaction without document changes.
Received(time) == remapState(Tr(<<>>, time, docSize), State)

C8_InFlightIdsDistinct ==
  \A i, j \in Indices(validationsInFlight) :
    i # j => validationsInFlight[i].id # validationsInFlight[j].id

\* C9: RequestFailed(id, error) for a request in flight adds that entry's
\* input range, mapped through the entry's mapping, to dirtiedRanges (merged
\* with the dirtied ranges there are), removes exactly that entry from
\* validationsInFlight, sets error to the message and creates no entry.
C9_FailureRedirtiesTheEntry ==
  [][(last'.type = "REQUEST_FAILED" /\ Found(last'.id)) =>
       LET index == selectValidationInFlightById(State, last'.id)
           entry == validationsInFlight[index]
       IN /\ dirtiedRanges' =
               mergeRanges(Received(now).dirtiedRanges
                           \o <<mapRange(entry.validationInput, entry.mapping)>>)
          /\ validationsInFlight' = without(validationsInFlight, index)
          /\ error' = last'.message]_vars

\* No dispatch for the dirtied ranges fits the bounds of this model.
DispatchOutOfBounds ==
  \/ now >= MaxTime
  \/ Len(expandRanges(config.expandRanges, Received(now).dirtiedRanges, docSize)) > MaxInFlight

\* C10: after RequestFailed has re-dirtied the range of a failed request, and
\* with no further edit of the document, the orchestrator eventually
\* dispatches a new validation request.
C10_FailedRangeIsRequestedAgain ==
  (last.type = "REQUEST_FAILED" /\ last.found /\ dirtiedRanges # <<>>)
    ~> \/ last.type \in {"REQUEST_FOR_DIRTY_RANGES", "REQUEST_FOR_DOCUMENT", "EDIT"}
       \/ DispatchOutOfBounds

\* C11: RequestFailed(id, error) whose id matches no in-flight entry only
\* records the error message: dirtiedRanges, validationsInFlight,
\* currentValidations and validationPending are as the re-mapping leaves them.
C11_UnmatchedFailureOnlyRecordsError ==
  [][(last'.type = "REQUEST_FAILED" /\ ~Found(last'.id)) =>
       /\ error' = last'.message
       /\ dirtiedRanges' = Received(now).dirtiedRanges
       /\ validationsInFlight' = Received(now).validationsInFlight
       /\ currentValidations' = Received(now).currentValidations
       /\ validationPending' = Received(now).validationPending]_vars

\* A failure has just arrived for a request that is not in flight any more,
\* while another request is in flight and its range is not dirtied.
C11_Witness ==
  /\ last.type = "REQUEST_FAILED"
  /\ ~last.found
  /\ error = last.message
  /\ validationsInFlight # <<>>
  /\ \A d \in Indices(dirtiedRanges) : ~Overlaps(last.ranges[1], dirtiedRanges[d])

\* C12: RequestSucceeded whose id matches no in-flight entry is a no-op: the
\* state is the one the re-mapping alone produces.
C12_UnmatchedSuccessIsNoOp ==
  [][(last'.type = "REQUEST_SUCCEEDED" /\ ~Found(last'.id)) =>
       /\ currentValidations' = Received(now).currentValidations
       /\ dirtiedRanges' = Received(now).dirtiedRanges
       /\ validationsInFlight' = Received(now).validationsInFlight
       /\ validationPending' = Received(now).validationPending
       /\ error' = error]_vars

\* A response with an output has just arrived for a request that is not in
\* flight any more, and the output is not among the current validations.
C12_Witness ==
  /\ last.type = "REQUEST_SUCCEEDED"
  /\ ~last.found
  /\ last.outputs # <<>>
  /\ \A j \in Indices(currentValidations) : currentValidations[j].id # last.outputs[1].id

\* C13: RequestSucceeded for a request in flight removes exactly the entry of
\* the request that was answered and leaves every other entry, with its id,
\* validationInput and mapping, in place.
C13_SuccessRemovesTheResolvedEntry ==
  [][(last'.type = "REQUEST_SUCCEEDED" /\ Found(last'.id)) =>
       \E index \in Indices(validationsInFlight) :
         /\ validationsInFlight[index].id = last'.id
         /\ validationsInFlight[index].validationInput = last'.ranges[1]
         /\ validationsInFlight' = without(validationsInFlight, index)]_vars

\* C14: a firing of the timer while a request is in flight dispatches no
\* RequestForDirtyRanges and schedules the timer again; a dispatch happens
\* only at a firing at which validationsInFlight is empty.
C14_TimerDefersWhileInFlight ==
  [][/\ last'.type = "TIMER_DEFER" =>
          /\ validationsInFlight # <<>>
          /\ validationsInFlight' = validationsInFlight
          /\ dirtiedRanges' = dirtiedRanges
          /\ timers > 0 /\ timers' = timers
     /\ last'.type = "REQUEST_FOR_DIRTY_RANGES" =>
          /\ validationsInFlight = <<>>
          /\ timers > 0 /\ timers' = timers - 1]_vars

\* C15: at most one scheduled validation timer is outstanding at any time.
C15_AtMostOneTimer == timers <= 1

\* C16: an edit carrying no action re-maps dirtiedRanges, currentValidations
\* and every in-flight entry's mapping through the edit exactly once, and
\* leaves validationPending, error and the in-flight ids unchanged.
C16_EditRemapsOnce ==
  [][last'.type = "EDIT" =>
       /\ dirtiedRanges' = mapAndMergeRanges(dirtiedRanges, last'.edit)
       /\ currentValidations' = mapRanges(currentValidations, last'.edit)
       /\ Len(validationsInFlight') = Len(validationsInFlight)
       /\ \A i \in Indices(validationsInFlight) :
            validationsInFlight'[i] =
              [validationsInFlight[i] EXCEPT !.mapping = appendMapping(@, last'.edit)]
       /\ validationPending' = validationPending
       /\ error' = error]_vars

\* C17: in every reachable state dirtiedRanges is merged: its ranges are in
\* ascending order and no two of them overlap or touch.
C17_DirtiedRangesMerged ==
  \A i, j \in Indices(dirtiedRanges) :
    i < j => dirtiedRanges[i].to < dirtiedRanges[j].from

\* C18: after RequestSucceeded, currentValidations holds at most one entry
\* per identifier, and an accepted output is the entry for its identifier.
C18_OneValidationPerIdentifier ==
  [][(last'.type = "REQUEST_SUCCEEDED" /\ Found(last'.id)) =>
       /\ \A i, j \in Indices(currentValidations') :
            i # j => currentValidations'[i].id # currentValidations'[j].id
       /\ \A k \in Indices(last'.mapped) : \A j \in Indices(currentValidations') :
            currentValidations'[j].id = last'.mapped[k].id =>
              currentValidations'[j] = last'.mapped[k]]_vars

\* An output has just been accepted in place of a current validation with the
\* same identifier and another range.
C18_Witness ==
  /\ last.type = "REQUEST_SUCCEEDED"
  /\ last.found
  /\ last.n > 0
  /\ \E j \in Indices(currentValidations) : currentValidations[j] = last.mapped[1]
  /\ Len(currentValidations) > 1

\* C19: when the adapter fails, validate calls applyValidationError exactly
\* once, with the validation input and the error message, does not call
\* applyValidationResult, and its promise resolves with {validationInput,
\* message} instead of rejecting.
C19_ValidateReportsAdapterError ==
  last.type = "REQUEST_FAILED" =>
    /\ Len(last.calls) = 1
    /\ last.calls[1] = [command |-> "applyValidationError",
                        validationInput |-> last.ranges[1],
                        message |-> last.message]
    /\ last.settled.kind = "resolved"
    /\ last.settled.value = [type |-> "error", validationInput |-> last.ranges[1],
                             message |-> last.message]

\* The adapter has just failed with "timeout" for a request in flight.
C19_Witness ==
  /\ last.type = "REQUEST_FAILED"
  /\ last.found
  /\ last.message = "timeout"
  /\ error = "timeout"
  /\ last.calls # <<>>

\* C20: when the adapter succeeds, validate resolves with the adapter's
\* outputs and calls applyValidationResult exactly once, with those outputs
\* and the request id.
C20_ValidateResolvesWithOutputs ==
  last.type = "REQUEST_SUCCEEDED" =>
    /\ Len(last.calls) = 1
    /\ last.calls[1].command = "applyValidationResult"
    /\ last.calls[1].validationOutputs = last.outputs
    /\ "id" \in DOMAIN last.calls[1]
    /\ last.calls[1].id = last.id
    /\ last.settled.kind = "resolved"
    /\ last.settled.value.type = "outputs"
    /\ last.settled.value.validationOutputs = last.outputs

\* C21: RequestForWholeDocument appends in-flight entries for the document's
\* inputs with identity mappings, sets validationPending to false, clears
\* dirtiedRanges and keeps the entries already in flight.
C21_DispatchForDocument ==
  [][last'.type = "REQUEST_FOR_DOCUMENT" =>
       LET inputs == createValidationInputsForDocument(docSize)
           previous == Len(validationsInFlight)
       IN /\ dirtiedRanges' = <<>>
          /\ ~validationPending'
          /\ Len(validationsInFlight') = previous + Len(inputs)
          /\ \A i \in 1..previous : validationsInFlight'[i] = validationsInFlight[i]
          /\ \A i \in Indices(inputs) :
               /\ validationsInFlight'[previous + i].mapping = <<>>
               /\ validationsInFlight'[previous + i].validationInput = inputs[i]]_vars

\* A whole-document request has just been dispatched while an earlier
\* request, with an edit in its mapping, stays in flight.
C21_Witness ==
  /\ last.type = "REQUEST_FOR_DOCUMENT"
  /\ Len(validationsInFlight) = 2
  /\ validationsInFlight[1].mapping # <<>>
  /\ validationsInFlight[2].validationInput = Range(0, docSize)
  /\ dirtiedRanges = <<>>

\* The range and flag fields of a state.
RangeFields(state) ==
  <<state.dirtiedRanges, state.currentValidations, state.validationsInFlight,
    state.validationPending, state.error>>

\* C22: Select, Hover and SetDebug leave dirtiedRanges, currentValidations,
\* validationsInFlight, validationPending and error as the reducer's
\* re-mapping through the transaction hands them to the handler; Select
\* changes only selectedValidation, Hover only hoverId and hoverInfo,
\* SetDebug only debug.
C22_BookkeepingLeavesRanges ==
  [][/\ last'.type \in {"SELECT", "HOVER", "SET_DEBUG"} =>
          RangeFields(State') = RangeFields(Received(now))
     /\ last'.type = "SELECT" =>
          /\ selectedValidation' = last'.id
          /\ UNCHANGED <<hoverId, hoverInfo, debug>>
     /\ last'.type = "HOVER" =>
          /\ hoverId' = last'.id
          /\ hoverInfo' = (IF last'.id = Undefined THEN Undefined ELSE "info")
          /\ UNCHANGED <<selectedValidation, debug>>
     /\ last'.type = "SET_DEBUG" =>
          /\ debug' = last'.found
          /\ UNCHANGED <<selectedValidation, hoverId, hoverInfo>>]_vars

\* Each of the three has acted on a state with dirtied ranges, validations,
\* a request in flight and an error.
C22_Witness ==
  /\ last.type \in {"SELECT", "HOVER", "SET_DEBUG"}
  /\ dirtiedRanges # <<>>
  /\ validationsInFlight # <<>>
  /\ error # Undefined
  /\ selectedValidation # Undefined
  /\ hoverId # Undefined
  /\ debug

\* C23: error is undefined in the initial state, every RequestFailed
\* transition sets it to the message of that failure, overwriting the message
\* it held, and every other transition leaves it as it was.
C23_ErrorIsLatestFailure ==
  /\ error = Undefined
  /\ [][IF last'.type = "REQUEST_FAILED"
        THEN error' = last'.message
        ELSE error' = error]_vars

\* A failure has acted, and a later bookkeeping transition has kept its
\* message.
C23_Witness ==
  /\ error \in Messages
  /\ last.type \in {"SELECT", "HOVER", "SET_DEBUG"}
  /\ validationsInFlight # <<>>

\* C24: in every reachable state the mapping of each in-flight entry is the
\* step maps of the edits applied since the entry was created, in order, and
\* a range mapped through those edits one after the other is the range mapped
\* through the entry's composed mapping.
C24_MappingComposesEdits ==
  /\ Len(since) = Len(validationsInFlight)
  /\ \A i \in Indices(validationsInFlight) :
       /\ validationsInFlight[i].mapping = since[i].edits
       /\ \A range \in RangesWithin(0, MaxDoc) :
            TranslateThrough(range, since[i].edits)
              = mapRange(range, validationsInFlight[i].mapping)

\* An entry has lived through two edits.
C24_Witness ==
  \E i \in Indices(validationsInFlight) :
    /\ Len(validationsInFlight[i].mapping) = 2
    /\ validationsInFlight[i].mapping[1] # validationsInFlight[i].mapping[2]
    /\ \E range \in RangesWithin(0, MaxDoc) :
         mapRange(range, validationsInFlight[i].mapping) # range

\* A list is ascending with a gap between neighbours: no two of its ranges
\* overlap or touch.
Ascending(ranges) ==
  \A i \in Indices(ranges) : \A j \in Indices(ranges) :
    i < j => ranges[i].to < ranges[j].from

\* The positions and boundaries a list of ranges covers.
Covered(ranges) ==
  {p \in 0..MaxDoc : \E i \in Indices(ranges) : ranges[i].from <= p /\ p <= ranges[i].to}

\* C25: merging is idempotent, mergeRanges(mergeRanges(R)) = mergeRanges(R)
\* for every list R, and the merged list is ascending and non-overlapping,
\* touching ranges collapsed into one, covering what R covers.
C25_MergeIdempotent ==
  LET merged == mergeRanges(dirtiedRanges)
  IN /\ mergeRanges(merged) = merged
     /\ Ascending(merged)
     /\ Covered(merged) = Covered(dirtiedRanges)
     /\ last.type = "MERGE" =>
          /\ dirtiedRanges = mergeRanges(last.ranges)
          /\ merged = dirtiedRanges

\* Three ranges, out of order, two of them touching, have been merged into
\* two.
C25_Witness ==
  /\ last.type = "MERGE"
  /\ Len(last.ranges) = 3
  /\ \E i, j \in Indices(last.ranges) :
       /\ i < j
       /\ last.ranges[j].to = last.ranges[i].from
       /\ last.ranges[j].from < last.ranges[j].to
       /\ last.ranges[i].from < last.ranges[i].to
  /\ Len(dirtiedRanges) = 2

\* The transitions of the state machine, as the latest step records them.
TransitionTypes ==
  {"EDIT", "RANGES_DIRTIED", "REQUEST_FOR_DIRTY_RANGES", "REQUEST_FOR_DOCUMENT",
   "REQUEST_SUCCEEDED", "REQUEST_FAILED", "SELECT", "HOVER", "SET_DEBUG"}

\* C26: on every state transition the store is notified exactly once, with
\* the plugin state after the transition and the plugin state immediately
\* before it.
C26_NotifiedOncePerTransition ==
  [][last'.type \in TransitionTypes =>
       notified' = <<[new |-> State', previous |-> State]>>]_vars

\* What holds of the notifications: one per dispatch, with the plugin state
\* before the dispatch; none for the edit whose dispatch appendTransaction
\* extends.
NotifiedOncePerDispatch ==
  [][last'.type \in TransitionTypes =>
       IF last'.type = "EDIT" THEN notified' = <<>>
       ELSE notified' = <<[new |-> State', previous |-> viewState]>>]_vars

\* C27: in every reachable state outside a dispatch, validationPending is
\* true exactly when a timer is outstanding: a validation has been scheduled
\* and has not yet fired.
C27_PendingIffTimerOutstanding ==
  ~appending => (validationPending <=> timers > 0)

\* The half of it that holds: validationPending is never true with no timer
\* outstanding.
PendingHasTimer == ~appending => (validationPending => timers > 0)

\* A later edit has emptied the document: there is no text left for
\* appendTransaction to report as replaced.
NothingToDirty == appending /\ DirtyArgs(docSize) = {}

\* C28: whenever an edit has left dirtiedRanges non-empty, then with timers
\* that fire and requests that are answered, a dispatch eventually follows
\* that empties dirtiedRanges into in-flight requests (unless the run has
\* reached the last timestamp, the most in-flight entries, or an empty
\* document).
C28_DirtiedIsEventuallyDispatched ==
  (last.type = "RANGES_DIRTIED" /\ dirtiedRanges # <<>>)
    ~> \/ /\ last.type \in {"REQUEST_FOR_DIRTY_RANGES", "REQUEST_FOR_DOCUMENT"}
          /\ dirtiedRanges = <<>>
          /\ validationsInFlight # <<>>
       \/ DispatchOutOfBounds
       \/ NothingToDirty

\* The timer has dispatched the ranges an edit dirtied while the edit's
\* request was awaited.
C28_Witness ==
  /\ last.type = "REQUEST_FOR_DIRTY_RANGES"
  /\ edits > 0
  /\ dirtiedRanges = <<>>
  /\ validationsInFlight # <<>>
  /\ ~DispatchOutOfBounds

\* The step delivers once more the success response the step before it
\* delivered: the same id, input and outputs, for a request answered already.
SameResponseAgain ==
  /\ last.type = "REQUEST_SUCCEEDED"
  /\ last'.type = "REQUEST_SUCCEEDED"
  /\ Len(answered') < Len(answered)
  /\ last'.id = last.id
  /\ last'.ranges = last.ranges
  /\ last'.outputs = last.outputs

\* C29: delivering the same success response a second time, right after the
\* first delivery, leaves currentValidations, dirtiedRanges and
\* validationsInFlight as the first delivery left them.
C29_SecondDeliveryChangesNothing ==
  [][SameResponseAgain =>
       /\ currentValidations' = currentValidations
       /\ dirtiedRanges' = dirtiedRanges
       /\ validationsInFlight' = validationsInFlight]_vars

\* The same, where the first delivery left no in-flight entry with the
\* response's id.
SecondDeliveryUnmatchedChangesNothing ==
  [][(SameResponseAgain /\ ~Found(last.id)) =>
       /\ currentValidations' = currentValidations
       /\ dirtiedRanges' = dirtiedRanges
       /\ validationsInFlight' = validationsInFlight]_vars

\* Two ranges share an endpoint and no text.
Touches(range, other) ==
  ~Overlaps(range, other) /\ (range.to = other.from \/ other.to = range.from)

\* RangesDirtied keeps a current validation that touches a new range and
\* overlaps none.
TouchingValidationKept ==
  last'.type = "RANGES_DIRTIED" =>
    \A j \in Indices(currentValidations) :
      (/\ \E k \in Indices(last'.ranges) : Touches(currentValidations[j], last'.ranges[k])
       /\ \A k \in Indices(last'.ranges) : ~Overlaps(currentValidations[j], last'.ranges[k]))
        => \E i \in Indices(currentValidations') : currentValidations'[i] = currentValidations[j]

\* RequestSucceeded accepts an output that, mapped, touches a dirtied range
\* and overlaps none.
TouchingOutputAccepted ==
  (last'.type = "REQUEST_SUCCEEDED" /\ Found(last'.id)) =>
    \A k \in Indices(last'.mapped) :
      LET dirtied == Received(now).dirtiedRanges
      IN (/\ \E d \in Indices(dirtied) : Touches(last'.mapped[k], dirtied[d])
          /\ \A d \in Indices(dirtied) : ~Overlaps(last'.mapped[k], dirtied[d]))
           => \E i \in Indices(currentValidations') : currentValidations'[i] = last'.mapped[k]

\* RangesDirtied leaves no two dirtied ranges that touch.
TouchingDirtiedMerged ==
  last'.type = "RANGES_DIRTIED" =>
    \A i, j \in Indices(dirtiedRanges') :
      i # j => ~Touches(dirtiedRanges'[i], dirtiedRanges'[j])

\* C30: eviction and admission use strict intersection, so that a current
\* validation or an incoming output that only touches a dirtied range is
\* neither evicted by RangesDirtied nor rejected on RequestSucceeded, whereas
\* dirtied ranges that touch are merged into one.
C30_TouchingKeptButDirtiedMerged ==
  [][TouchingValidationKept /\ TouchingOutputAccepted /\ TouchingDirtiedMerged]_vars

\* The part on eviction and admission alone.
TouchingIsNotOverlapping ==
  [][TouchingValidationKept /\ TouchingOutputAccepted]_vars

\* RangesDirtied has kept a validation that touches the new range.
TouchingKept ==
  /\ last.type = "RANGES_DIRTIED"
  /\ \E j \in Indices(currentValidations) :
       /\ currentValidations[j].from < currentValidations[j].to
       /\ Touches(currentValidations[j], last.ranges[1])

\* RequestSucceeded has accepted an output that touches a dirtied range.
TouchingAccepted ==
  /\ last.type = "REQUEST_SUCCEEDED"
  /\ last.found
  /\ \E k \in Indices(last.mapped) : \E d \in Indices(dirtiedRanges) :
       /\ last.mapped[k].from < last.mapped[k].to
       /\ dirtiedRanges[d].from < dirtiedRanges[d].to
       /\ Touches(last.mapped[k], dirtiedRanges[d])
       /\ \E i \in Indices(currentValidations) : currentValidations[i] = last.mapped[k]

Requests(list) ==
  [i \in 1..Len(list) |-> [id |-> list[i].id, validationInput |-> list[i].validationInput]]

ResponseTypes == {"REQUEST_SUCCEEDED", "REQUEST_FAILED"}

\* C32: an in-flight entry leaves validationsInFlight only through a
\* RequestSucceeded or RequestFailed transition carrying its id. Every other
\* transition (an edit, RangesDirtied, a dispatch, Select, Hover, SetDebug)
\* keeps every entry, in order, and a response keeps the entries of every
\* other id.
C32_InFlightLeavesOnlyByResponse ==
  [][IF last'.type \in ResponseTypes
     THEN SelectSeq(Requests(validationsInFlight'), LAMBDA r : r.id # last'.id)
            = SelectSeq(Requests(validationsInFlight), LAMBDA r : r.id # last'.id)
     ELSE /\ Len(validationsInFlight') >= Len(validationsInFlight)
          /\ SubSeq(Requests(validationsInFlight'), 1, Len(validationsInFlight))
               = Requests(validationsInFlight)]_vars

\* A request is still in flight after an edit, after ranges were dirtied
\* over it and after a bookkeeping transition.
C32_Witness ==
  /\ validationsInFlight # <<>>
  /\ since[1].edits # <<>>
  /\ since[1].dirtied # <<>>
  /\ last.type \in {"SELECT", "HOVER", "SET_DEBUG"}

\* C33: while a request stays in flight and is not answered, every firing of
\* the orchestrator's timer defers and schedules the timer again: no
\* RequestForDirtyRanges transition occurs and the timer stays outstanding,
\* so the ranges dirtied in the meantime stay dirtied unless the whole
\* document is requested.
C33_DeferralLoopNeverDispatches ==
  [][(validationsInFlight # <<>> /\ last'.type \notin ResponseTypes) =>
       /\ last'.type # "REQUEST_FOR_DIRTY_RANGES"
       /\ timers' >= timers
       /\ (dirtiedRanges # <<>> /\ last'.type # "REQUEST_FOR_DOCUMENT"
            => dirtiedRanges' # <<>>)]_vars

\* The timer has fired and deferred with a request in flight and ranges
\* dirtied since its dispatch.
DeferredWhileInFlight ==
  /\ last.type = "TIMER_DEFER"
  /\ validationsInFlight # <<>>
  /\ dirtiedRanges # <<>>
  /\ timers > 0

\* The entries that the transition shown by a notification created: the
\* entries a dispatch of requests appended to the in-flight list.
Created ==
  IF last'.type \in {"REQUEST_FOR_DIRTY_RANGES", "REQUEST_FOR_DOCUMENT"}
  THEN SubSeq(validationsInFlight', Len(viewState.validationsInFlight) + 1,
              Len(validationsInFlight'))
  ELSE <<>>

\* What selectNewValidationInFlight gives for the states of a notification.
Reported ==
  LET new == selectNewValidationInFlight(
               [validationsInFlight |->
                  InFlightObjects(notified'[1].new.validationsInFlight, objects')],
               [validationsInFlight |->
                  InFlightObjects(notified'[1].previous.validationsInFlight, viewObjects)])
  IN [i \in 1..Len(new) |-> new[i].entry]

\* C34: for every transition the store is notified of,
\* selectNewValidationInFlight(newState, oldState) is exactly the entries the
\* transition created; an entry that was in flight in oldState is not
\* reported as new when a later edit or action re-maps it.
C34_NewInFlightReportedOnce ==
  [][notified' # <<>> => Reported = Created]_vars

\* A dispatch reports the entries it created, and what it reports is in the
\* in-flight list of the new state.
NewInFlightReported ==
  [][notified' # <<>> =>
       /\ Len(Reported) >= Len(Created)
       /\ \A i \in 1..Len(Created) :
            Reported[Len(Reported) - Len(Created) + i] = Created[i]
       /\ \A i \in 1..Len(Reported) :
            \E j \in 1..Len(validationsInFlight') : validationsInFlight'[j] = Reported[i]]_vars

\* C35: a transition does not modify a published state. Every object that
\* is live before and after a transition holds the mapping it held, so the
\* mappings of the in-flight entries of the state the view last showed are
\* those it was shown with: the successor's mappings are new objects.
C35_PublishedStateNotModified ==
  [][/\ \A object \in DOMAIN heap \cap DOMAIN heap' : heap'[object] = heap[object]
     /\ Len(viewObjects') = Len(viewState'.validationsInFlight)
     /\ \A i \in 1..Len(viewObjects') :
          heap'[viewObjects'[i]] = viewState'.validationsInFlight[i].mapping]_vars

\* An edit has been applied to a state with a request in flight, and the view
\* has not been updated yet: the entry's mapping holds the edit, the mapping
\* of the published entry is still empty.
C35_Witness ==
  /\ appending
  /\ objects # <<>>
  /\ viewObjects # <<>>
  /\ validationsInFlight[1].mapping # <<>>
  /\ heap[viewObjects[1]] = <<>>
  /\ objects[1] # viewObjects[1]

\* The match decorations that carry the id of a validation.
DecorationsOf(id) == findDecorationsById(decorations, id)

\* C36: in every reachable state (the state between an edit and the
\* RangesDirtied that follows it apart) the match decorations agree with
\* currentValidations: every current validation has exactly one inline match
\* decoration with its id, at its range, and no match decoration carries an
\* id that no current validation has.
C36_DecorationsAgreeWithValidations ==
  ~appending =>
    /\ \A i \in 1..Len(currentValidations) :
         /\ Len(DecorationsOf(currentValidations[i].id)) = 1
         /\ DecorationsOf(currentValidations[i].id)[1].from = currentValidations[i].from
         /\ DecorationsOf(currentValidations[i].id)[1].to = currentValidations[i].to
    /\ \A j \in 1..Len(decorations) :
         \E i \in 1..Len(currentValidations) : currentValidations[i].id = decorations[j].id

\* The current validations have an entry with this id.
IsCurrent(id) == \E i \in 1..Len(currentValidations) : currentValidations[i].id = id

\* The hover moves from one current validation to another one.
HoverMoves ==
  /\ last'.type = "HOVER"
  /\ hoverId # Undefined /\ IsCurrent(hoverId)
  /\ last'.id # Undefined /\ IsCurrent(last'.id)
  /\ last'.id # hoverId

\* C37: after a Hover that moves the hover from validation A to another
\* validation B, both current, the decoration set has a hovering decoration
\* for B and a decoration that is not hovering for A, and hoverId is B.
C37_HoverMovesTheHoverDecoration ==
  [][HoverMoves =>
       /\ hoverId' = last'.id
       /\ \E j \in 1..Len(decorations') :
            decorations'[j].id = last'.id /\ decorations'[j].isSelected
       /\ \E j \in 1..Len(decorations') :
            decorations'[j].id = hoverId /\ ~decorations'[j].isSelected]_vars

\* What the moved hover does leave: hoverId is B, and validation A has a
\* decoration that is not hovering and none that is.
HoverLeavesThePrevious ==
  [][HoverMoves =>
       /\ hoverId' = last'.id
       /\ \E j \in 1..Len(decorations') :
            decorations'[j].id = hoverId /\ ~decorations'[j].isSelected
       /\ \A j \in 1..Len(decorations') :
            decorations'[j].id = hoverId => ~decorations'[j].isSelected]_vars

\* C38: the transaction history is bounded. It never holds more than 26
\* transactions, and it is the most recent transactions applied, in the
\* order they were applied: the oldest is dropped first.
C38_HistoryIsTheLatestTransactions ==
  /\ Len(trHistory) = Min(applied, historyLimit + 1)
  /\ \A i \in 1..Len(trHistory) : trHistory[i] = applied - Len(trHistory) + i

\* The history is full and has dropped its oldest transactions.
C38_Witness ==
  /\ Len(trHistory) = historyLimit + 1
  /\ trHistory[1] > 2
  /\ applied = trHistory[Len(trHistory)]
====
